---------------------------- MODULE Spec2Model ----------------------------
(***************************************************************************)
(* Model of src/main.py: the POST /api/submit handler of the fraud review  *)
(* API, its helpers (_b64, _guess_mime, _is_image, _is_pdf,                *)
(* _extract_pdf_text, _build_prompt) and its two collaborators (the        *)
(* OpenAI chat completion call and the Resend email send).                 *)
(*                                                                         *)
(* Representation.                                                         *)
(*   str    a TLA+ string; Len, \o and SubSeq are Python's len, + and      *)
(*          slicing.                                                       *)
(*   bytes  a TLA+ string of lower-case hex digits, two per byte           *)
(*          (Python's data.hex()); ByteLen is Python's len(data).          *)
(*   None   the empty tuple <<>>; an optional string s is <<s>>.           *)
(***************************************************************************)
EXTENDS Integers, Sequences, FiniteSets, TLC

(***************************************************************************)
(* Program constants (src/main.py:36-49).                                  *)
(***************************************************************************)
ANALYST_EMAIL == "bostoncopier@gmail.com"
MAX_FILES == 5
MAX_FILE_BYTES == 6 * 1024 * 1024
MAX_TEXT_CHARS == 12000

(***************************************************************************)
(* Bounds of the model.                                                    *)
(***************************************************************************)
\* A request has up to MAX_FILES + 1 file parts, of which only the first
\* MaxParts may carry bytes: the parts after them are zero-length.
MaxParts == 2

(***************************************************************************)
(* Python values.                                                          *)
(***************************************************************************)
None == <<>>
Some(s) == <<s>>
\* Python truthiness of an Optional[str]
Truthy(o) == o # None /\ o[1] # ""
\* o or d
OrElse(o, d) == IF Truthy(o) THEN o[1] ELSE d
\* f"{o}" / str(o)
Fmt(o) == IF o = None THEN "None" ELSE o[1]

Min(a, b) == IF a < b THEN a ELSE b

\* s[:n]
Take(s, n) == SubSeq(s, 1, Min(n, Len(s)))

\* s.endswith(suf)
EndsWith(s, suf) ==
    /\ Len(s) >= Len(suf)
    /\ SubSeq(s, Len(s) - Len(suf) + 1, Len(s)) = suf

\* the whitespace str.strip() removes, among the characters of the model
IsSpace(c) == c \in {" ", "\t", "\n", "\r"}

RECURSIVE LStrip(_)
LStrip(s) ==
    IF Len(s) > 0 /\ IsSpace(SubSeq(s, 1, 1))
    THEN LStrip(SubSeq(s, 2, Len(s))) ELSE s

RECURSIVE RStrip(_)
RStrip(s) ==
    IF Len(s) > 0 /\ IsSpace(SubSeq(s, Len(s), Len(s)))
    THEN RStrip(SubSeq(s, 1, Len(s) - 1)) ELSE s

\* s.strip()
Strip(s) == RStrip(LStrip(s))

UpperLetters == "ABCDEFGHIJKLMNOPQRSTUVWXYZ"
LowerLetters == "abcdefghijklmnopqrstuvwxyz"

LowerChar(c) ==
    IF \E i \in 1..26 : SubSeq(UpperLetters, i, i) = c
    THEN LET i == CHOOSE k \in 1..26 : SubSeq(UpperLetters, k, k) = c
         IN  SubSeq(LowerLetters, i, i)
    ELSE c

\* s.lower()
RECURSIVE Lower(_)
Lower(s) ==
    IF Len(s) = 0 THEN ""
    ELSE LowerChar(SubSeq(s, 1, 1)) \o Lower(SubSeq(s, 2, Len(s)))

\* sep.join(seq)
RECURSIVE Join(_, _)
Join(sep, seq) ==
    IF Len(seq) = 0 THEN ""
    ELSE IF Len(seq) = 1 THEN seq[1]
    ELSE seq[1] \o sep \o Join(sep, Tail(seq))

DecDigits == "0123456789"

\* str(n) for n >= 0
RECURSIVE IntToStr(_)
IntToStr(n) ==
    IF n < 10 THEN SubSeq(DecDigits, n + 1, n + 1)
    ELSE IntToStr(n \div 10) \o SubSeq(DecDigits, (n % 10) + 1, (n % 10) + 1)

(***************************************************************************)
(* bytes as hex strings.                                                   *)
(***************************************************************************)
HexDigits == "0123456789abcdef"
HexVal(c) == (CHOOSE i \in 1..16 : SubSeq(HexDigits, i, i) = c) - 1
\* len(data)
ByteLen(d) == Len(d) \div 2
\* data[i-1], 1 <= i <= len(data)
ByteAt(d, i) ==
    16 * HexVal(SubSeq(d, 2 * i - 1, 2 * i - 1)) + HexVal(SubSeq(d, 2 * i, 2 * i))
\* data[i-1:j]
ByteSlice(d, i, j) == SubSeq(d, 2 * i - 1, 2 * j)
HexOf(b) ==
    SubSeq(HexDigits, (b \div 16) + 1, (b \div 16) + 1)
        \o SubSeq(HexDigits, (b % 16) + 1, (b % 16) + 1)

\* n copies of the string c
RECURSIVE Rep(_, _)
Rep(c, n) ==
    IF n = 0 THEN ""
    ELSE LET h == Rep(c, n \div 2)
         IN  IF n % 2 = 1 THEN h \o h \o c ELSE h \o h

(***************************************************************************)
(* base64.b64encode(data).decode("utf-8")            (src/main.py:62-63)   *)
(***************************************************************************)
B64Alphabet == "ABCDEFGHIJKLMNOPQRSTUVWXYZabcdefghijklmnopqrstuvwxyz0123456789+/"
B64Char(v) == SubSeq(B64Alphabet, v + 1, v + 1)

\* one group of 1, 2 or 3 bytes -> 4 characters
B64Group(d) ==
    LET k  == ByteLen(d)
        b1 == ByteAt(d, 1)
        b2 == IF k >= 2 THEN ByteAt(d, 2) ELSE 0
        b3 == IF k >= 3 THEN ByteAt(d, 3) ELSE 0
        n  == b1 * 65536 + b2 * 256 + b3
    IN  B64Char(n \div 262144) \o B64Char((n \div 4096) % 64)
          \o (IF k >= 2 THEN B64Char((n \div 64) % 64) ELSE "=")
          \o (IF k >= 3 THEN B64Char(n % 64) ELSE "=")

RECURSIVE B64Encode(_)
B64Encode(d) ==
    LET k == ByteLen(d)
    IN  IF k = 0 THEN ""
        ELSE IF k <= 3 THEN B64Group(d)
        ELSE LET m == 3 * (((k + 2) \div 3) \div 2)
             IN  B64Encode(ByteSlice(d, 1, m)) \o B64Encode(ByteSlice(d, m + 1, k))

(***************************************************************************)
(* data.decode("utf-8", errors="ignore")               (src/main.py:207)   *)
(* ASCII bytes decode to their character; a byte that can occur in no      *)
(* UTF-8 sequence (0xC0, 0xC1, 0xF5..0xFF) is dropped.  The uploads of the *)
(* model hold no other byte, so multi-byte sequences are not decoded here. *)
(***************************************************************************)
\* chr(32) .. chr(95) and chr(97) .. chr(126); chr(96), the backquote, cannot
\* be written in a TLA+ string and is not among the bytes of the model
AsciiLow == " !\"#$%&'()*+,-./0123456789:;<=>?@ABCDEFGHIJKLMNOPQRSTUVWXYZ[\\]^_"
AsciiHigh == "abcdefghijklmnopqrstuvwxyz{|}~"

Chr(b) ==
    CASE b = 9  -> "\t"
      [] b = 10 -> "\n"
      [] b = 13 -> "\r"
      [] b >= 32 /\ b <= 95  -> SubSeq(AsciiLow, b - 31, b - 31)
      [] b >= 97 /\ b <= 126 -> SubSeq(AsciiHigh, b - 96, b - 96)

NeverUtf8(b) == b \in {192, 193} \/ (b >= 245 /\ b <= 255)

DecodeByte(b) ==
    CASE b < 128      -> Chr(b)
      [] NeverUtf8(b) -> ""

RECURSIVE Utf8DecodeIgnore(_)
Utf8DecodeIgnore(d) ==
    LET k == ByteLen(d)
    IN  IF k = 0 THEN ""
        ELSE IF k = 1 THEN DecodeByte(ByteAt(d, 1))
        ELSE Utf8DecodeIgnore(ByteSlice(d, 1, k \div 2))
               \o Utf8DecodeIgnore(ByteSlice(d, (k \div 2) + 1, k))


(***************************************************************************)
(* The pypdf library, as the code uses it (src/main.py:97-100): the        *)
(* document PdfReader(io.BytesIO(pdf_bytes)) builds from the bytes, or a   *)
(* raised exception; each page's extract_text() is a string or None.       *)
(***************************************************************************)
PdfScanBytes == "255044462d7363616e"
PdfTextBytes == "255044462d74657874"

PdfDocument(pdf_bytes) ==
    CASE pdf_bytes = PdfScanBytes ->
             [raises |-> FALSE, pages |-> << Some(" \n"), None >>]
      [] pdf_bytes = PdfTextBytes ->
             [raises |-> FALSE,
              pages |-> << Some("Wire $9,500 to acct 4471 today.\n"),
                           Some(""),
                           Some("  Regards, <The CEO>") >>]
      [] OTHER -> [raises |-> TRUE, pages |-> << >>]

(***************************************************************************)
(* The inputs of the model.                                                *)
(***************************************************************************)
\* environment variables OPENAI_API_KEY and RESEND_API_KEY: unset or set
ApiKeys == {None, Some("configured-key")}

\* the form fields of a request
FormFields ==
    { [transaction_type |-> "Wire transfer",
       contact_email |-> "pat@example.com",
       short_description |-> ""],
      [transaction_type |-> "<script>alert(1)</script>",
       contact_email |-> "a&b@example.com",
       short_description |-> "Tom & Jerry <b>urgent</b>"] }

\* str(uuid.uuid4())
Uuids == {"3f0c7c9e-5d5b-4c56-9d0e-6a1f0b8c2d11"}

ImageBytes == "ff504e470d0aff"
\* " From: <ceo@evil.example>\n"
NoteBytes == "2046726f6d3a203c63656f406576696c2e6578616d706c653e0a"
\* an undecodable byte and white space
BlobBytes == "ff200a09"
LongBytes == Rep("6a", MAX_TEXT_CHARS + 1)
HugeBytes == Rep("ff", MAX_FILE_BYTES + 1)

\* the file parts a request may carry: an UploadFile's filename, content_type
\* and the bytes read() returns
NonEmptyParts ==
    { [filename |-> Some("shot.PNG"), content_type |-> None, data |-> ImageBytes],
      [filename |-> Some("scan.pdf"), content_type |-> Some("application/pdf"),
       data |-> PdfScanBytes],
      [filename |-> Some("Wire.PDF"), content_type |-> None, data |-> PdfTextBytes],
      [filename |-> Some("note.eml"), content_type |-> Some("message/rfc822"),
       data |-> NoteBytes],
      [filename |-> None, content_type |-> Some(""), data |-> BlobBytes],
      [filename |-> Some("broken.pdf"), content_type |-> None, data |-> BlobBytes],
      [filename |-> Some("pic.webp"), content_type |-> None, data |-> ImageBytes],
      [filename |-> Some("long.txt"), content_type |-> Some("text/plain"),
       data |-> LongBytes] }

EmptyPart == [filename |-> Some("empty.txt"), content_type |-> Some("text/plain"),
              data |-> ""]
HugePart == [filename |-> Some("huge.pdf"), content_type |-> Some("application/pdf"),
             data |-> HugeBytes]

Parts == NonEmptyParts \cup {EmptyPart, HugePart}

\* the number of parts of a request
PartCounts == 0..(MAX_FILES + 1)

\* what client.chat.completions.create(...) and the reading of its response
\* (lines 218-226) can do: raise, or yield message.content (a string or None)
InferenceOutcomes ==
    { [raises |-> TRUE, text |-> Some("Request timed out.")],
      [raises |-> FALSE, text |-> None],
      [raises |-> FALSE, text |-> Some(" \n")],
      [raises |-> FALSE,
       text |-> Some("Risk Level: High\nKey Findings:\n- <b>domain mismatch</b> & urgency\n")] }

\* what resend.Emails.send(...) can do: accept the send, or raise
EmailOutcomes ==
    { [raises |-> FALSE, text |-> None],
      [raises |-> TRUE, text |-> Some("Attachment rejected by provider")] }

\* what an unexpected fault of f.read() raises
ReadFaults == {"Error reading upload"}

(***************************************************************************)
(* State.                                                                  *)
(***************************************************************************)
VARIABLES
    OPENAI_API_KEY,        \* line 39
    RESEND_API_KEY,        \* line 40
    PdfReader,             \* lines 14-17: TRUE when pypdf was imported
    pc,                    \* where the handler stands: "idle", "read",
                           \* "analyse", "infer", "email", "send", "done"
    transaction_type,      \* form field
    contact_email,         \* form field
    short_description,     \* form field
    nfiles,                \* len(files)
    files,                 \* the parts read so far, in order: filename,
                           \* content_type and the number of bytes read
    submission_id,
    uploaded,              \* line 149: (filename, mime, bytes)
    prompt,                \* line 167
    ai_text,
    ai_error,
    content_parts,         \* line 181: the user message of the inference call
    extracted_text_blocks, \* line 184
    attachments,           \* line 239
    email_sent,
    email_error,
    sent_email,            \* the argument of resend.Emails.send, once called
    response,              \* the handler's response, once returned
    log                    \* calls made for this request, in order

procVars == << OPENAI_API_KEY, RESEND_API_KEY, PdfReader >>
formVars == << transaction_type, contact_email, short_description, nfiles,
               submission_id >>
aiVars   == << prompt, ai_text, ai_error, content_parts, extracted_text_blocks >>
mailVars == << attachments, email_sent, email_error, sent_email >>
vars == << procVars, pc, formVars, files, uploaded, aiVars, mailVars,
           response, log >>

\* line 43: client = OpenAI(api_key=OPENAI_API_KEY) if OPENAI_API_KEY else None
client == IF Truthy(OPENAI_API_KEY) THEN Some("OpenAI") ELSE None

(***************************************************************************)
(* Helpers of the handler.                                                 *)
(***************************************************************************)
\* lines 62-63, tabulated once over the uploads of the model
B64Table == [d \in {p.data : p \in NonEmptyParts} |-> B64Encode(d)]
_b64(data) == IF data \in DOMAIN B64Table THEN B64Table[data] ELSE B64Encode(data)

\* line 207, tabulated once over the uploads of the model
Utf8Table == [d \in {p.data : p \in NonEmptyParts} |-> Utf8DecodeIgnore(d)]
decode(data) ==
    IF data \in DOMAIN Utf8Table THEN Utf8Table[data] ELSE Utf8DecodeIgnore(data)

\* lines 66-76
_guess_mime(filename, content_type) ==
    IF Truthy(content_type) THEN content_type[1]
    ELSE LET fn == Lower(OrElse(filename, ""))
         IN  IF EndsWith(fn, ".png") THEN "image/png"
             ELSE IF EndsWith(fn, ".jpg") \/ EndsWith(fn, ".jpeg") THEN "image/jpeg"
             ELSE IF EndsWith(fn, ".pdf") THEN "application/pdf"
             ELSE "application/octet-stream"

\* lines 79-80
_is_image(mime) == mime \in {"image/png", "image/jpeg"}

\* lines 83-84
_is_pdf(mime) == mime = "application/pdf"

\* lines 98-103: the text of the first ten pages
RECURSIVE PageParts(_)
PageParts(pages) ==
    IF pages = << >> THEN << >>
    ELSE LET txt == OrElse(Head(pages), "")
         IN  (IF Strip(txt) # "" THEN << Strip(txt) >> ELSE << >>)
               \o PageParts(Tail(pages))

\* lines 87-105
_extract_pdf_text(pdf_bytes) ==
    IF ~PdfReader THEN ""
    ELSE LET reader == PdfDocument(pdf_bytes)
         IN  IF reader.raises THEN ""
             ELSE Strip(Join("\n\n",
                       PageParts(SubSeq(reader.pages, 1, Min(10, Len(reader.pages))))))

\* lines 108-126
_build_prompt(tt, sd, ce) ==
    Strip("\nYou are a fraud-risk analyst. Analyze the uploaded email / wire instructions / screenshots for fraud risk.\n\nTransaction Type: "
          \o tt
          \o "\nUser Description: "
          \o sd
          \o "\nUser Contact Email: "
          \o ce
          \o "\n\nReturn ONLY this structure:\n\nRisk Level: Low | Moderate | High\nKey Findings:\n- bullet\n- bullet\nShort Assessment: 2-5 sentences\nRecommendation: 2-5 bullets\n\nBe specific about red flags (urgency, sender spoofing, payment method, domain mismatch, changed wire instructions, odd phrasing, attachments, request to bypass procedure, etc.).\n")


\* an entry of log: a call made on file number file of uploaded (0: on none),
\* or the way a collaborator's call ended
Call(op, file, outcome) == [op |-> op, file |-> file, outcome |-> outcome]

(***************************************************************************)
(* Evidence for the inference call (src/main.py:181-216).                  *)
(***************************************************************************)
\* lines 188-191
ImagePart(mime, data) ==
    [type |-> "image_url",
     image_url |-> [url |-> "data:" \o mime \o ";base64," \o _b64(data)]]

\* a PDF without text contributes no block
PdfBlocks_SilentWhenEmpty(filename, pdf_text) ==
    IF pdf_text # ""
    THEN << "--- PDF TEXT EXTRACT (" \o filename \o ") ---\n" \o pdf_text >>
    ELSE << >>

\* lines 194-203: the block of a PDF, given the text extracted from it
PdfBlocks(filename, pdf_text) ==
    IF pdf_text # ""
    THEN << "--- PDF TEXT EXTRACT (" \o filename \o ") ---\n" \o pdf_text >>
    ELSE << "--- PDF NOTE (" \o filename
              \o ") ---\nThis PDF appears to have no extractable text (likely scanned/image-only). For best results, upload a screenshot image (JPG/PNG) of the email/wire instructions." >>

\* lines 206-211: the block of any other file, given its decoded, stripped text
FileBlocks(filename, text) ==
    IF text # ""
    THEN << "--- FILE TEXT (" \o filename \o ") ---\n" \o Take(text, MAX_TEXT_CHARS) >>
    ELSE << >>

\* the image branch left out: an image is decoded as text
Route_NoImageBranch(mime) == IF _is_pdf(mime) THEN "pdf" ELSE "other"

\* lines 187, 192, 204: which branch of the loop body a file takes
Route(mime) ==
    IF _is_image(mime) THEN "image" ELSE IF _is_pdf(mime) THEN "pdf" ELSE "other"

\* lines 186-211: the loop over uploaded, from file i on; acc holds the image
\* parts, the text blocks and the extraction calls made so far
RECURSIVE Evidence(_, _, _)
Evidence(ups, i, acc) ==
    IF i > Len(ups) THEN acc
    ELSE LET u == ups[i]
             r == Route(u.mime)
         IN  Evidence(ups, i + 1,
               CASE r = "image" ->
                      [acc EXCEPT !.images = Append(@, ImagePart(u.mime, u.data))]
                 [] r = "pdf" ->
                      [acc EXCEPT
                         !.blocks = @ \o PdfBlocks(u.filename, _extract_pdf_text(u.data)),
                         !.calls = Append(@, Call("_extract_pdf_text", i, ""))]
                 [] r = "other" ->
                      [acc EXCEPT
                         !.blocks = @ \o FileBlocks(u.filename, Strip(decode(u.data))),
                         !.calls = Append(@, Call("decode", i, ""))])

\* the joined blocks sent uncut
EvidenceText_NoCap(blocks) == Join("\n\n", blocks)

\* lines 213-216: the text part made of the blocks
EvidenceText(blocks) == Take(Join("\n\n", blocks), MAX_TEXT_CHARS)

\* lines 181-216: content_parts
ContentParts(p, ev) ==
    << [type |-> "text", text |-> p] >>
      \o ev.images
      \o (IF ev.blocks # << >>
          THEN << [type |-> "text", text |-> EvidenceText(ev.blocks)] >>
          ELSE << >>)

(***************************************************************************)
(* Email (src/main.py:239-271).                                            *)
(***************************************************************************)
\* lines 242-248
Attachment(u) ==
    [filename |-> u.filename, content |-> _b64(u.data), content_type |-> u.mime]

\* only the files that gave the model something to read are attached
Attachments_OnlyEvidence(ups) ==
    LET kept == SelectSeq(ups, LAMBDA u :
                    \/ _is_image(u.mime)
                    \/ (_is_pdf(u.mime) /\ _extract_pdf_text(u.data) # "")
                    \/ (~_is_pdf(u.mime) /\ Strip(decode(u.data)) # ""))
    IN  [i \in 1..Len(kept) |-> Attachment(kept[i])]

\* lines 239-248
Attachments(ups) == [i \in 1..Len(ups) |-> Attachment(ups[i])]

\* lines 259-268
EmailHtml(id, tt, ce, sd, names, narrative) ==
    "\n                            <h2>Fraud Review Submission</h2>\n                            <p><b>Submission ID:</b> "
      \o id
      \o "</p>\n                            <p><b>Transaction Type:</b> "
      \o tt
      \o "</p>\n                            <p><b>User Contact Email:</b> "
      \o ce
      \o "</p>\n                            <p><b>Description:</b> "
      \o sd
      \o "</p>\n                            <p><b>Files:</b> "
      \o Join(", ", names)
      \o "</p>\n                            <hr/>\n                            <pre style=\"white-space:pre-wrap;font-family:ui-monospace, SFMono-Regular, Menlo, Monaco, Consolas, 'Liberation Mono', 'Courier New', monospace;\">"
      \o narrative
      \o "</pre>\n                        "

\* lines 255-270: the argument of resend.Emails.send
EmailParams(id, tt, ce, sd, ups, narrative, atts) ==
    [from |-> "Fraud Review <onboarding@resend.dev>",
     to |-> << ANALYST_EMAIL >>,
     subject |-> "Fraud Review Submission " \o id,
     html |-> EmailHtml(id, tt, ce, sd, [i \in 1..Len(ups) |-> ups[i].filename],
                        narrative),
     attachments |-> atts]

(***************************************************************************)
(* Responses.                                                              *)
(***************************************************************************)
\* JSONResponse(status_code=..., content={"ok": False, "error": ...})
ErrorResponse(status, error) ==
    Some([status_code |-> status, content |-> [ok |-> FALSE, error |-> error]])

\* lines 277-284
SuccessResponse(id, sent, eerr, aerr) ==
    Some([status_code |-> 200,
          content |-> [ok |-> TRUE,
                       submission_id |-> id,
                       message |-> "Submitted successfully.",
                       email_sent |-> sent,
                       email_error |-> eerr,
                       ai_error |-> aerr]])

(***************************************************************************)
(* The handler, step by step.                                              *)
(***************************************************************************)
Init ==
    /\ OPENAI_API_KEY \in ApiKeys
    /\ RESEND_API_KEY \in ApiKeys
    /\ PdfReader \in BOOLEAN
    /\ pc = "idle"
    /\ transaction_type = ""
    /\ contact_email = ""
    /\ short_description = ""
    /\ nfiles = 0
    /\ submission_id = ""
    /\ files = << >>
    /\ uploaded = << >>
    /\ prompt = ""
    /\ ai_text = ""
    /\ ai_error = None
    /\ content_parts = << >>
    /\ extracted_text_blocks = << >>
    /\ attachments = << >>
    /\ email_sent = FALSE
    /\ email_error = None
    /\ sent_email = None
    /\ response = None
    /\ log = << >>

\* lines 130-146: a request arrives; the checks on the number of files
Submit(form, n, id) ==
    /\ pc = "idle"
    /\ transaction_type' = form.transaction_type
    /\ contact_email' = form.contact_email
    /\ short_description' = form.short_description
    /\ nfiles' = n
    /\ submission_id' = id
    /\ IF n = 0
       THEN /\ response' = ErrorResponse(400, "No files uploaded.")
            /\ pc' = "done"
       ELSE IF n > MAX_FILES
       THEN /\ response' = ErrorResponse(400,
                   "Too many files. Max allowed is " \o IntToStr(MAX_FILES) \o ".")
            /\ pc' = "done"
       ELSE /\ response' = None
            /\ pc' = "read"
    /\ UNCHANGED << procVars, files, uploaded, aiVars, mailVars, log >>

\* the size check left out
TooLarge_Never(data) == FALSE

\* lines 155-159: the size check of one file
TooLarge(data) == ByteLen(data) > MAX_FILE_BYTES

\* lines 150-162: one turn of the loop that reads the files
ReadFile(f) ==
    /\ pc = "read"
    /\ Len(files) < nfiles
    /\ Len(files) >= MaxParts => f.data = ""
    /\ files' = Append(files, [filename |-> f.filename,
                               content_type |-> f.content_type,
                               size |-> ByteLen(f.data)])
    /\ IF f.data = ""
       THEN UNCHANGED << pc, uploaded, response >>
       ELSE IF TooLarge(f.data)
       THEN /\ response' = ErrorResponse(400,
                   "File too large: " \o Fmt(f.filename) \o ". Max is "
                     \o IntToStr(MAX_FILE_BYTES) \o " bytes.")
            /\ pc' = "done"
            /\ UNCHANGED uploaded
       ELSE /\ uploaded' = Append(uploaded,
                   [filename |-> OrElse(f.filename, "upload"),
                    mime |-> _guess_mime(f.filename, f.content_type),
                    data |-> f.data])
            /\ UNCHANGED << pc, response >>
    /\ UNCHANGED << procVars, formVars, aiVars, mailVars, log >>

\* lines 151, 286-287: f.read() raises; the fault is caught at the top level
ReadFault(e) ==
    /\ pc = "read"
    /\ Len(files) < nfiles
    /\ response' = ErrorResponse(500, e)
    /\ pc' = "done"
    /\ UNCHANGED << procVars, formVars, files, uploaded, aiVars, mailVars, log >>

\* lines 164-173: after the loop
EndRead ==
    /\ pc = "read"
    /\ Len(files) = nfiles
    /\ IF uploaded = << >>
       THEN /\ response' = ErrorResponse(400, "Uploaded files were empty.")
            /\ pc' = "done"
            /\ UNCHANGED prompt
       ELSE /\ prompt' = _build_prompt(transaction_type, short_description,
                                       contact_email)
            /\ pc' = "analyse"
            /\ UNCHANGED response
    /\ UNCHANGED << procVars, formVars, files, uploaded, ai_text, ai_error,
                    content_parts, extracted_text_blocks, mailVars, log >>

\* lines 175-224: without a client, the fixed text; with one, the evidence is
\* assembled and the inference call is made
Analyse ==
    /\ pc = "analyse"
    /\ IF client = None
       THEN /\ ai_text' = "AI analysis not run: OPENAI_API_KEY is not configured."
            /\ ai_error' = Some("OPENAI_API_KEY missing")
            /\ pc' = "email"
            /\ UNCHANGED << content_parts, extracted_text_blocks, log >>
       ELSE LET ev == Evidence(uploaded, 1,
                               [images |-> << >>, blocks |-> << >>, calls |-> << >>])
            IN  /\ content_parts' = ContentParts(prompt, ev)
                /\ extracted_text_blocks' = ev.blocks
                /\ log' = log \o ev.calls
                            \o << Call("inference_call", 0, "") >>
                /\ pc' = "infer"
                /\ UNCHANGED << ai_text, ai_error >>
    /\ UNCHANGED << procVars, formVars, files, uploaded, prompt, mailVars, response >>

\* lines 173, 229-231: ai_error once the inference call ended
AiError(o) == IF o.raises THEN o.text ELSE None

\* lines 226-228: the narrative taken from the response
Narrative(content) ==
    LET text == Strip(OrElse(content, ""))
    IN  IF text = "" THEN "AI returned an empty analysis." ELSE text

\* lines 218-231: the inference call ends
InferenceReturns(o) ==
    /\ pc = "infer"
    /\ ai_text' = IF o.raises THEN "AI analysis failed: " \o o.text[1]
                  ELSE Narrative(o.text)
    /\ ai_error' = AiError(o)
    /\ log' = Append(log, Call("inference_return", 0,
                                IF o.raises THEN "raised" ELSE "returned"))
    /\ pc' = "email"
    /\ UNCHANGED << procVars, formVars, files, uploaded, prompt, content_parts,
                    extracted_text_blocks, mailVars, response >>

\* the email skipped when the analysis failed
ResendConfigured_OnlyIfAnalysed == Truthy(RESEND_API_KEY) /\ ai_error = None

\* line 250: if not RESEND_API_KEY ... else
ResendConfigured == Truthy(RESEND_API_KEY)

\* the error of a failed send is dropped
EmailError_Lost(o) == None

\* lines 237, 273-274: email_error once the email call ended
EmailError(o) == IF o.raises THEN o.text ELSE None

\* lines 236-271, 277-284: the attachments; without a key, the response; with
\* one, the email call is made
Email ==
    /\ pc = "email"
    /\ attachments' = Attachments(uploaded)
    /\ email_sent' = FALSE
    /\ IF ~ResendConfigured
       THEN /\ email_error' = Some("RESEND_API_KEY missing")
            /\ response' = SuccessResponse(submission_id, FALSE,
                                           Some("RESEND_API_KEY missing"), ai_error)
            /\ pc' = "done"
            /\ UNCHANGED << sent_email, log >>
       ELSE /\ sent_email' = Some(EmailParams(submission_id, transaction_type,
                                    contact_email, short_description, uploaded,
                                    ai_text, Attachments(uploaded)))
            /\ log' = Append(log, Call("email_call", 0, ""))
            /\ pc' = "send"
            /\ UNCHANGED << email_error, response >>
    /\ UNCHANGED << procVars, formVars, files, uploaded, aiVars >>

\* lines 272-284: the email call ends, and the handler responds
EmailReturns(o) ==
    /\ pc = "send"
    /\ email_sent' = ~o.raises
    /\ email_error' = EmailError(o)
    /\ response' = SuccessResponse(submission_id, ~o.raises, EmailError(o), ai_error)
    /\ log' = Append(log, Call("email_return", 0,
                                IF o.raises THEN "raised" ELSE "accepted"))
    /\ pc' = "done"
    /\ UNCHANGED << procVars, formVars, files, uploaded, aiVars, attachments,
                    sent_email >>

\* the response was sent: nothing of the request is kept, and the next
\* request finds the process as it was
Finish ==
    /\ pc = "done"
    /\ pc' = "idle"
    /\ transaction_type' = ""
    /\ contact_email' = ""
    /\ short_description' = ""
    /\ nfiles' = 0
    /\ submission_id' = ""
    /\ files' = << >>
    /\ uploaded' = << >>
    /\ prompt' = ""
    /\ ai_text' = ""
    /\ ai_error' = None
    /\ content_parts' = << >>
    /\ extracted_text_blocks' = << >>
    /\ attachments' = << >>
    /\ email_sent' = FALSE
    /\ email_error' = None
    /\ sent_email' = None
    /\ response' = None
    /\ log' = << >>
    /\ UNCHANGED procVars

Next ==
    \/ \E form \in FormFields, n \in PartCounts, id \in Uuids :
          Submit(form, n, id)
    \/ \E f \in Parts : ReadFile(f)
    \/ \E e \in ReadFaults : ReadFault(e)
    \/ EndRead
    \/ Analyse
    \/ \E o \in InferenceOutcomes : InferenceReturns(o)
    \/ Email
    \/ \E o \in EmailOutcomes : EmailReturns(o)
    \/ Finish

Spec == Init /\ [][Next]_vars


(***************************************************************************)
(* Properties.                                                             *)
(***************************************************************************)
\* base64.b64decode: the inverse of B64Encode
B64Index(c) == (CHOOSE i \in 1..64 : SubSeq(B64Alphabet, i, i) = c) - 1

B64Ungroup(g) ==
    LET pad == IF SubSeq(g, 3, 3) = "=" THEN 2 ELSE IF SubSeq(g, 4, 4) = "=" THEN 1 ELSE 0
        v3  == IF pad >= 2 THEN 0 ELSE B64Index(SubSeq(g, 3, 3))
        v4  == IF pad >= 1 THEN 0 ELSE B64Index(SubSeq(g, 4, 4))
        n   == B64Index(SubSeq(g, 1, 1)) * 262144 + B64Index(SubSeq(g, 2, 2)) * 4096
                 + v3 * 64 + v4
    IN  HexOf(n \div 65536)
          \o (IF pad <= 1 THEN HexOf((n \div 256) % 256) ELSE "")
          \o (IF pad = 0 THEN HexOf(n % 256) ELSE "")

RECURSIVE B64DecodeAll(_)
B64DecodeAll(c) ==
    LET k == Len(c) \div 4
    IN  IF k = 0 THEN ""
        ELSE IF k = 1 THEN B64Ungroup(c)
        ELSE B64DecodeAll(SubSeq(c, 1, 4 * (k \div 2)))
               \o B64DecodeAll(SubSeq(c, 4 * (k \div 2) + 1, Len(c)))

\* tabulated once over the encodings of the uploads of the model
B64DecodeTable == [c \in {B64Encode(p.data) : p \in NonEmptyParts} |-> B64DecodeAll(c)]
B64Decode(c) == IF c \in DOMAIN B64DecodeTable THEN B64DecodeTable[c] ELSE B64DecodeAll(c)

StartsWith(s, pre) == Len(s) >= Len(pre) /\ SubSeq(s, 1, Len(pre)) = pre

\* the calls of one kind made for the request at hand
CallsOf(op) == {k \in 1..Len(log) : log[k].op = op}
CountOps(op) == Cardinality(CallsOf(op))

NoCollaboratorInvoked ==
    /\ CountOps("inference_call") = 0
    /\ CountOps("email_call") = 0
    /\ content_parts = << >>
    /\ sent_email = None

\* the response is a 400 with ok = false and an error message
Is400 ==
    /\ response # None
    /\ response[1].status_code = 400
    /\ response[1].content.ok = FALSE
    /\ response[1].content.error # ""

\* the response is a success response
Is200 ==
    /\ response # None
    /\ response[1].status_code = 200
    /\ response[1].content.ok = TRUE

AllRead == Len(files) = nfiles
Oversized == \E k \in 1..Len(files) : files[k].size > MAX_FILE_BYTES
AllEmpty == AllRead /\ \A k \in 1..Len(files) : files[k].size = 0

\* the request at hand fails one of the four checks of the handler
ValidationFails ==
    /\ pc # "idle"
    /\ (nfiles = 0 \/ nfiles > MAX_FILES \/ Oversized \/ AllEmpty)

\* the request at hand was read in full and passes the four checks
ValidationPassed ==
    /\ pc # "idle"
    /\ nfiles >= 1
    /\ nfiles <= MAX_FILES
    /\ AllRead
    /\ ~Oversized
    /\ \E k \in 1..Len(files) : files[k].size > 0

\* the input files with non-empty bytes, in submission order
NonEmptyFiles == SelectSeq(files, LAMBDA f : f.size > 0)

\* C1: a submission that fails validation (no file, more than MAX_FILES
\* files, a file larger than MAX_FILE_BYTES, or only zero-length files) is
\* answered with a 400, ok = false and an error message, and neither the
\* inference nor the email collaborator is invoked for it.  The first three
\* are answered in the step that finds them; the last once the loop has ended.
C1_ValidationRejects ==
    /\ (pc # "idle" /\ (nfiles = 0 \/ nfiles > MAX_FILES \/ Oversized))
          => (pc = "done" /\ Is400)
    /\ (pc # "idle" /\ AllEmpty)
          => (pc \in {"read", "done"} /\ (pc = "done" => Is400))
    /\ ValidationFails => NoCollaboratorInvoked

\* an oversized file after one that was accepted, answered with a 400
C1_Witness ==
    /\ pc = "done"
    /\ Is400
    /\ Oversized
    /\ Len(uploaded) = 1
    /\ NoCollaboratorInvoked

InferenceUnconfigured == ~Truthy(OPENAI_API_KEY)
InferenceRaised ==
    \E k \in CallsOf("inference_return") : log[k].outcome = "raised"
EmailRejected ==
    \E k \in CallsOf("email_return") : log[k].outcome = "raised"
EmailAccepted ==
    \E k \in CallsOf("email_return") : log[k].outcome = "accepted"

\* C2: a submission that passes validation is answered with a success
\* response, ok = true, whatever the inference and the email do; when the
\* inference is unconfigured or raised and the email is configured, the
\* email send is attempted, and ai_error is set in the response.
C2_AlwaysSucceeds ==
    ValidationPassed =>
      /\ pc \in {"read", "analyse", "infer", "email", "send", "done"}
      /\ pc = "done" => Is200
      /\ (pc = "done" /\ (InferenceUnconfigured \/ InferenceRaised))
            => response[1].content.ai_error # None
      /\ (pc \in {"send", "done"} /\ (InferenceUnconfigured \/ InferenceRaised)
            /\ Truthy(RESEND_API_KEY))
            => (CountOps("email_call") = 1 /\ sent_email # None)

\* the inference raised, the email was rejected, and the response is a success
C2_Witness ==
    /\ pc = "done"
    /\ ValidationPassed
    /\ InferenceRaised
    /\ EmailRejected
    /\ Is200
    /\ response[1].content.ai_error # None
    /\ response[1].content.email_sent = FALSE

\* the email step has built the attachment list
AttachmentsBuilt == pc = "send" \/ (pc = "done" /\ Is200)

\* C3: for a submission that passes validation, the attachment list handed
\* to the email step has one entry per input file with non-empty bytes, in
\* submission order, each with that file's name, bytes and MIME type.
C3_AttachmentsComplete ==
    (ValidationPassed /\ AttachmentsBuilt) =>
      /\ Len(attachments) = Len(NonEmptyFiles)
      /\ \A i \in 1..Len(NonEmptyFiles) :
            /\ i <= Len(attachments)
            /\ attachments[i].filename = OrElse(NonEmptyFiles[i].filename, "upload")
            /\ ByteLen(B64Decode(attachments[i].content)) = NonEmptyFiles[i].size
            /\ B64Decode(attachments[i].content) = uploaded[i].data
            /\ attachments[i].content_type = uploaded[i].mime
      /\ sent_email # None => sent_email[1].attachments = attachments

\* an image and a PDF without text, attached with the inference unconfigured
C3_Witness ==
    /\ pc = "done"
    /\ ValidationPassed
    /\ InferenceUnconfigured
    /\ EmailAccepted
    /\ Len(files) = 2
    /\ Len(attachments) = 2
    /\ _is_image(uploaded[1].mime)
    /\ _is_pdf(uploaded[2].mime)
    /\ _extract_pdf_text(uploaded[2].data) = ""
    /\ B64Decode(attachments[2].content) = PdfScanBytes


\* the evidence was assembled and handed to the inference call
EvidenceBuilt == CountOps("inference_call") = 1

\* the total length of the text parts of a user message
RECURSIVE TextLen(_)
TextLen(parts) ==
    IF parts = << >> THEN 0
    ELSE (IF Head(parts).type = "text" THEN Len(Head(parts).text) ELSE 0)
           + TextLen(Tail(parts))

\* C4, as claimed: the prompt text assembled for the inference call is never
\* longer than MAX_TEXT_CHARS.
C4_PromptWithinMax ==
    EvidenceBuilt => TextLen(content_parts) <= MAX_TEXT_CHARS

\* C4, amended: the text part made of the extracted blocks is never longer
\* than MAX_TEXT_CHARS; the instruction block with the form fields is sent in
\* full before it, so the prompt text is at most that block's length plus
\* MAX_TEXT_CHARS.
C4_EvidenceWithinMax ==
    EvidenceBuilt =>
      /\ content_parts[1].type = "text"
      /\ content_parts[1].text = prompt
      /\ \A k \in 2..Len(content_parts) :
            content_parts[k].type = "text" => Len(content_parts[k].text) <= MAX_TEXT_CHARS
      /\ TextLen(content_parts) <= Len(prompt) + MAX_TEXT_CHARS

\* two blocks whose join is longer than the maximum, cut to the maximum
C4_Witness ==
    /\ EvidenceBuilt
    /\ Len(extracted_text_blocks) = 2
    /\ Len(Join("\n\n", extracted_text_blocks)) > MAX_TEXT_CHARS
    /\ content_parts[Len(content_parts)].type = "text"
    /\ Len(content_parts[Len(content_parts)].text) = MAX_TEXT_CHARS

PdfNoteMarker(filename) == "--- PDF NOTE (" \o filename \o ") ---"

\* C5: when the text extracted from a file classified as pdf is empty (a
\* scanned PDF, a parse failure, no PDF library), the text blocks of the
\* evidence hold a non-empty block that names the file and explains; every
\* pdf file has its block.
C5_PdfNeverSilent ==
    EvidenceBuilt =>
      /\ \A i \in 1..Len(uploaded) :
            (uploaded[i].mime = "application/pdf" /\ _extract_pdf_text(uploaded[i].data) = "")
              => \E k \in 1..Len(extracted_text_blocks) :
                    /\ StartsWith(extracted_text_blocks[k], PdfNoteMarker(uploaded[i].filename))
                    /\ Len(extracted_text_blocks[k]) > Len(PdfNoteMarker(uploaded[i].filename))
      /\ Cardinality({k \in 1..Len(extracted_text_blocks) :
                         StartsWith(extracted_text_blocks[k], "--- PDF ")})
           = Cardinality({i \in 1..Len(uploaded) : uploaded[i].mime = "application/pdf"})

\* a scanned PDF and one that does not parse, each with its note
C5_Witness ==
    /\ EvidenceBuilt
    /\ PdfReader
    /\ Len(uploaded) = 2
    /\ uploaded[1].data = PdfScanBytes
    /\ uploaded[2].filename = "broken.pdf"
    /\ Len(extracted_text_blocks) = 2
    /\ StartsWith(extracted_text_blocks[1], "--- PDF NOTE (scan.pdf) ---\nThis PDF appears")
    /\ StartsWith(extracted_text_blocks[2], "--- PDF NOTE (broken.pdf) ---\nThis PDF appears")

\* claim-side classification of a MIME type as image
IsImageMime(m) == m \in {"image/png", "image/jpeg"}
ImageUploads == SelectSeq(uploaded, LAMBDA u : IsImageMime(u.mime))
ImageParts == SelectSeq(content_parts, LAMBDA c : c.type = "image_url")

\* C6, as claimed: a file that is neither image nor pdf and decodes to
\* nothing gets a placeholder block, so that there are as many text blocks
\* as non-image files.
C6_GenericPlaceholder ==
    EvidenceBuilt =>
      Len(extracted_text_blocks) = Len(uploaded) - Len(ImageUploads)

\* the media kind the specification prescribes for a file
SpecKind(filename, content_type) ==
    IF Truthy(content_type)
    THEN IF content_type[1] \in {"image/png", "image/jpeg"} THEN "image"
         ELSE IF content_type[1] = "application/pdf" THEN "pdf"
         ELSE "generic"
    ELSE LET fn == Lower(OrElse(filename, ""))
         IN  IF \E ext \in {".png", ".jpg", ".jpeg", ".webp"} : EndsWith(fn, ext)
             THEN "image"
             ELSE IF EndsWith(fn, ".pdf") THEN "pdf"
             ELSE "generic"

\* the media kind the handler routes a MIME type by
RoutedKind(mime) ==
    LET r == Route(mime) IN IF r = "other" THEN "generic" ELSE r

\* C7, as claimed: every file is routed by the kind the specification
\* prescribes for its filename and declared content type, and the MIME value
\* it is routed by is the one of its attachment.
C7_ClassifierAsSpecified ==
    \A i \in 1..Len(uploaded) :
      /\ RoutedKind(uploaded[i].mime)
           = SpecKind(NonEmptyFiles[i].filename, NonEmptyFiles[i].content_type)
      /\ (AttachmentsBuilt /\ i <= Len(attachments))
            => attachments[i].content_type = uploaded[i].mime

DataUrlPrefix(mime) == "data:" \o mime \o ";base64,"

\* C8: no text extraction (PDF extractor, text decode) is ever called on a
\* file classified as image; in the evidence the images have no text block
\* and one inline image reference each, in order, that decodes to the file's
\* bytes; and each has its one attachment, which decodes to the file's bytes.
C8_ImagesPassThrough ==
    /\ \A k \in 1..Len(log) :
          log[k].op \in {"_extract_pdf_text", "decode"}
            => ~IsImageMime(uploaded[log[k].file].mime)
    /\ EvidenceBuilt =>
          /\ Len(ImageParts) = Len(ImageUploads)
          /\ \A j \in 1..Len(ImageUploads) :
                /\ j <= Len(ImageParts)
                /\ StartsWith(ImageParts[j].image_url.url,
                              DataUrlPrefix(ImageUploads[j].mime))
                /\ B64Decode(SubSeq(ImageParts[j].image_url.url,
                                    Len(DataUrlPrefix(ImageUploads[j].mime)) + 1,
                                    Len(ImageParts[j].image_url.url)))
                     = ImageUploads[j].data
          /\ Len(extracted_text_blocks) <= Len(uploaded) - Len(ImageUploads)
          /\ {log[k].file : k \in CallsOf("_extract_pdf_text") \cup CallsOf("decode")}
               = {i \in 1..Len(uploaded) : ~IsImageMime(uploaded[i].mime)}
    /\ (ValidationPassed /\ AttachmentsBuilt) =>
          /\ Len(attachments) = Len(uploaded)
          /\ \A i \in 1..Len(uploaded) :
                IsImageMime(uploaded[i].mime)
                  => /\ i <= Len(attachments)
                     /\ B64Decode(attachments[i].content) = uploaded[i].data

\* one PNG: 1 image entry, 0 text blocks, 1 attachment
C8_Witness ==
    /\ pc = "done"
    /\ EvidenceBuilt
    /\ Len(files) = 1
    /\ uploaded[1].filename = "shot.PNG"
    /\ uploaded[1].mime = "image/png"
    /\ Len(ImageParts) = 1
    /\ Len(content_parts) = 2
    /\ extracted_text_blocks = << >>
    /\ Len(attachments) = 1
    /\ B64Decode(attachments[1].content) = ImageBytes
    /\ CallsOf("_extract_pdf_text") \cup CallsOf("decode") = {}

\* html.escape(s)
EscapeChar(c) ==
    CASE c = "&"  -> "&amp;"
      [] c = "<"  -> "&lt;"
      [] c = ">"  -> "&gt;"
      [] c = "\"" -> "&quot;"
      [] c = "'"  -> "&#x27;"
      [] OTHER    -> c

RECURSIVE HtmlEscape(_)
HtmlEscape(s) ==
    IF Len(s) = 0 THEN ""
    ELSE IF Len(s) = 1 THEN EscapeChar(s)
    ELSE HtmlEscape(SubSeq(s, 1, Len(s) \div 2))
           \o HtmlEscape(SubSeq(s, (Len(s) \div 2) + 1, Len(s)))

\* C9, as claimed: the HTML body of every email sent embeds the form fields,
\* the filenames and the narrative HTML-escaped.
C9_HtmlEscaped ==
    sent_email # None =>
      sent_email[1].html
        = EmailHtml(submission_id,
                    HtmlEscape(transaction_type),
                    HtmlEscape(contact_email),
                    HtmlEscape(short_description),
                    [i \in 1..Len(uploaded) |-> HtmlEscape(uploaded[i].filename)],
                    HtmlEscape(ai_text))

\* C10: for one submission each collaborator is called at most once, and the
\* inference call, when made, has ended before the email call is made; in a
\* success response email_sent is true exactly when the email call was made
\* once and accepted, email_error is null exactly when email_sent is true, and
\* ai_error is set exactly when the inference was unconfigured or raised.
C10_OnceAndInOrder ==
    /\ CountOps("inference_call") <= 1
    /\ CountOps("inference_return") <= CountOps("inference_call")
    /\ CountOps("email_call") <= 1
    /\ CountOps("email_return") <= CountOps("email_call")
    /\ \A e \in CallsOf("email_call") : \A c \in CallsOf("inference_call") :
          \E r \in CallsOf("inference_return") : c < r /\ r < e
    /\ (pc = "done" /\ Is200) =>
          LET b == response[1].content
          IN  /\ b.email_sent = (CountOps("email_call") = 1 /\ EmailAccepted)
              /\ (b.email_error = None) = b.email_sent
              /\ (b.ai_error # None) = (InferenceUnconfigured \/ InferenceRaised)

\* both calls made, in order, and the send accepted
C10_Witness ==
    /\ pc = "done"
    /\ Is200
    /\ CountOps("inference_call") = 1
    /\ CountOps("email_call") = 1
    /\ EmailAccepted
    /\ response[1].content.email_sent = TRUE
    /\ response[1].content.email_error = None
    /\ response[1].content.ai_error = None

=============================================================================
